---- MODULE Spec2Model ----
(***************************************************************************)
(* deet (proj-1): the debugger session of debugger.rs driving one traced   *)
(* child through the primitives of inferior.rs.                            *)
(*                                                                         *)
(* The child is a small machine-code program (Program below).  Its memory  *)
(* is kept as 8-byte words, because ptrace reads and writes whole words.   *)
(* Every handler of Debugger::run is one action, except that a handler     *)
(* pauses at each blocking ptrace step/cont call: the call and the code    *)
(* that handles its status form the next action (pc is the position).      *)
(***************************************************************************)
EXTENDS Integers, Sequences, FiniteSets, TLC

\* ------------------------------------------------------------------ bounds
\* iterations of the child's counted loop
LoopCount == 2
\* children left behind by failed spawns
MaxOrphans == 2
\* breakpoints declared in one session
MaxBreakpoints == 2
\* frames a backtrace is followed through
MaxFrames == 3
\* LinkedList: the cap on the number of nodes allocated at one time
MaxNodes == 4
\* Hangman: the longest secret word
MaxWordLen == 2
\* parallel_map: the largest num_threads and the longest input vector
MaxThreads == 2
MaxInputLen == 3
\* balancebeam: the upstream servers, the client connections handled at the
\* same time, the turns one connect_to_upstream call spends on invalid
\* upstreams, and how far the count of valid upstreams wraps below zero
MaxUpstreams == 2
MaxClients == 2
MaxSpins == 1
MaxWrap == 1

\* --------------------------------------------------------------- constants
TRAP_BYTE == 204
WordSize == 8
NUM_INCORRECT_GUESSES == 5

\* --------------------------------------------------------- the child program
\* start address |-> length, kind, first byte, source line and function
\* (<<>>: no debug info), jump target.  main runs a counted loop, passes a
\* stub without debug info that holds a trap instruction of its own, calls f
\* and exits; f builds and removes a frame.  The operand byte of a two-byte
\* instruction is 6, an opcode that cannot be executed (SIGILL when the child
\* is made to run there).
Program ==
  (0 :> [len |-> 1, kind |-> "nop",   byte |-> 144, line |-> <<1>>, func |-> <<"main">>]) @@
  (1 :> [len |-> 2, kind |-> "setcx", byte |-> 177, line |-> <<2>>, func |-> <<"main">>]) @@
  (3 :> [len |-> 1, kind |-> "nop",   byte |-> 144, line |-> <<3>>, func |-> <<"main">>]) @@
  (4 :> [len |-> 2, kind |-> "loop",  byte |-> 226, line |-> <<4>>, func |-> <<"main">>,
         target |-> 3]) @@
  (6 :> [len |-> 1, kind |-> "int3",  byte |-> TRAP_BYTE, line |-> <<>>, func |-> <<>>]) @@
  (7 :> [len |-> 1, kind |-> "nop",   byte |-> 144, line |-> <<>>, func |-> <<>>]) @@
  (8 :> [len |-> 2, kind |-> "call",  byte |-> 232, line |-> <<5>>, func |-> <<"main">>,
         target |-> 12]) @@
  (10 :> [len |-> 2, kind |-> "exit", byte |-> 15,  line |-> <<6>>, func |-> <<"main">>]) @@
  (12 :> [len |-> 1, kind |-> "push_rbp",    byte |-> 85,  line |-> <<8>>, func |-> <<"f">>]) @@
  (13 :> [len |-> 1, kind |-> "mov_rbp_rsp", byte |-> 72,  line |-> <<8>>, func |-> <<"f">>]) @@
  (14 :> [len |-> 1, kind |-> "pop_rbp",     byte |-> 93,  line |-> <<9>>, func |-> <<"f">>]) @@
  (15 :> [len |-> 1, kind |-> "ret",         byte |-> 195, line |-> <<9>>, func |-> <<"f">>])
InstrStarts == DOMAIN Program
Entry == CHOOSE a \in InstrStarts : \A b \in InstrStarts : a <= b
\* the word-aligned addresses of the child's mapped memory: code and stack
CodeBases == {0, 8}
StackBases == {48, 56}
WordBases == CodeBases \cup StackBases

ProgByte(a) ==
  IF a \in InstrStarts THEN Program[a].byte
  ELSE IF a - (a % WordSize) \in CodeBases THEN 6 ELSE 0

\* ---------------------------------------------------------------- inferior.rs
align_addr_to_word(addr) == addr - (addr % WordSize)

\* the image a freshly exec'ed child has
FreshMem == [w \in WordBases |-> [i \in 0..(WordSize - 1) |-> ProgByte(w + i)]]
\* the stack pointer of a freshly exec'ed child: the end of the stack
FreshRsp == WordSize + CHOOSE w \in StackBases : \A v \in StackBases : v <= w

ByteAt(m, a) == m[align_addr_to_word(a)][a - align_addr_to_word(a)]

\* ---- 64-bit words as their eight bytes, least significant first
Bit(x, i) == (x \div (2 ^ i)) % 2
\* a & b and a | b of two bytes (the all-zero and all-one operands are
\* answered without looking at the bits)
AndByte(a, b) ==
  IF b = 0 THEN 0
  ELSE IF b = 255 THEN a
  ELSE Bit(a, 0) * Bit(b, 0) + 2 * Bit(a, 1) * Bit(b, 1) + 4 * Bit(a, 2) * Bit(b, 2)
       + 8 * Bit(a, 3) * Bit(b, 3) + 16 * Bit(a, 4) * Bit(b, 4)
       + 32 * Bit(a, 5) * Bit(b, 5) + 64 * Bit(a, 6) * Bit(b, 6)
       + 128 * Bit(a, 7) * Bit(b, 7)
OrByte(a, b) ==
  IF b = 0 THEN a ELSE (a + b) - AndByte(b, a)
\* u64 from a u8 or a small literal
U64(n) == [i \in 0..(WordSize - 1) |-> IF i = 0 THEN n ELSE 0]
\* x & y, x | y, !x
And(x, y) == [i \in 0..(WordSize - 1) |-> AndByte(x[i], y[i])]
Or(x, y) == [i \in 0..(WordSize - 1) |-> OrByte(x[i], y[i])]
Not(x) == [i \in 0..(WordSize - 1) |-> 255 - x[i]]
\* x << n and x >> n for 0 <= n < 64: whole bytes move by n \div 8, the
\* remaining n % 8 bits carry from the neighbouring byte
ByteOf(x, j) == IF j \in 0..(WordSize - 1) THEN x[j] ELSE 0
Shl(x, n) ==
  [i \in 0..(WordSize - 1) |->
     IF n % 8 = 0 THEN ByteOf(x, i - (n \div 8))
     ELSE ((ByteOf(x, i - (n \div 8)) * (2 ^ (n % 8))) % 256)
          + (ByteOf(x, i - (n \div 8) - 1) \div (2 ^ (8 - (n % 8))))]
Shr(x, n) ==
  [i \in 0..(WordSize - 1) |->
     IF n % 8 = 0 THEN ByteOf(x, i + (n \div 8))
     ELSE (ByteOf(x, i + (n \div 8)) \div (2 ^ (n % 8)))
          + ((ByteOf(x, i + (n \div 8) + 1) * (2 ^ (8 - (n % 8)))) % 256)]

write_byte_read_unshifted(m, addr, val) ==
  LET aligned_addr == align_addr_to_word(addr)
      byte_offset == addr - aligned_addr
  IN IF aligned_addr \notin DOMAIN m
       THEN [ok |-> FALSE, mem |-> m, orig_byte |-> 0]
       ELSE LET word == m[aligned_addr]
                orig_byte == And(word, U64(255))
                masked_word == And(word, Not(Shl(U64(255), 8 * byte_offset)))
                updated_word == Or(masked_word, Shl(U64(val), 8 * byte_offset))
            IN [ok |-> TRUE,
                mem |-> [m EXCEPT ![aligned_addr] = updated_word],
                orig_byte |-> orig_byte[0]]

write_byte_unmasked(m, addr, val) ==
  LET aligned_addr == align_addr_to_word(addr)
      byte_offset == addr - aligned_addr
  IN IF aligned_addr \notin DOMAIN m
       THEN [ok |-> FALSE, mem |-> m, orig_byte |-> 0]
       ELSE LET word == m[aligned_addr]
                orig_byte == And(Shr(word, 8 * byte_offset), U64(255))
                updated_word == Or(word, Shl(U64(val), 8 * byte_offset))
            IN [ok |-> TRUE,
                mem |-> [m EXCEPT ![aligned_addr] = updated_word],
                orig_byte |-> orig_byte[0]]

\* Inferior::write_byte: read the containing word, mask the byte out, or the
\* new byte in, write the word back; returns the byte that was there (the
\* low byte of the shifted word, `as u8`).
write_byte(m, addr, val) ==
  LET aligned_addr == align_addr_to_word(addr)
      byte_offset == addr - aligned_addr
  IN IF aligned_addr \notin DOMAIN m
       THEN [ok |-> FALSE, mem |-> m, orig_byte |-> 0]
       ELSE LET word == m[aligned_addr]
                orig_byte == And(Shr(word, 8 * byte_offset), U64(255))
                masked_word == And(word, Not(Shl(U64(255), 8 * byte_offset)))
                updated_word == Or(masked_word, Shl(U64(val), 8 * byte_offset))
            IN [ok |-> TRUE,
                mem |-> [m EXCEPT ![aligned_addr] = updated_word],
                orig_byte |-> orig_byte[0]]

\* the eight bytes at a..a+7 are mapped
Mapped(m, a) == \A i \in 0..(WordSize - 1) : align_addr_to_word(a + i) \in DOMAIN m

\* a word as the unsigned number it encodes, little-endian (`as usize`).  The
\* image lies below 2^24: every larger number is kept as 2^24, an address
\* outside the image.
AsUsize(word) ==
  IF \A i \in 3..(WordSize - 1) : word[i] = 0
    THEN word[0] + 256 * word[1] + 65536 * word[2]
    ELSE 16777216

\* ptrace::read: the word at a, an error outside the mapped memory
read(m, a) ==
  IF Mapped(m, a)
    THEN [ok |-> TRUE, val |-> AsUsize([i \in 0..(WordSize - 1) |-> ByteAt(m, a + i)])]
    ELSE [ok |-> FALSE, val |-> 0]

\* the child stores the number v (below 2^32) as a word at a
Store(m, a, v) ==
  [w \in DOMAIN m |->
     [i \in 0..(WordSize - 1) |->
        IF a <= w + i /\ w + i < a + WordSize
          THEN IF w + i - a <= 3 THEN (v \div (256 ^ (w + i - a))) % 256 ELSE 0
          ELSE m[w][i]]]

\* One instruction of the child at ip: the trap byte traps with the
\* instruction pointer one past it; a non-instruction address is an illegal
\* instruction; an access outside the mapped memory is a segmentation fault;
\* otherwise the program's instruction runs.
ExecOne(m, ip, cx, sp, bp) ==
  LET here == [kind |-> "Stopped", sig |-> "SIGSEGV", rip |-> ip, rcx |-> cx,
               rsp |-> sp, rbp |-> bp, mem |-> m]
      Ran(r) == [r EXCEPT !.kind = "Ran", !.sig = "-"]
  IN
  IF align_addr_to_word(ip) \notin DOMAIN m
    THEN here
  ELSE IF ByteAt(m, ip) = TRAP_BYTE
    THEN [here EXCEPT !.sig = "SIGTRAP", !.rip = ip + 1]
  ELSE IF ip \notin InstrStarts
    THEN [here EXCEPT !.sig = "SIGILL"]
  ELSE LET ins == Program[ip]
           next == ip + ins.len
       IN
    CASE ins.kind = "nop"   -> Ran([here EXCEPT !.rip = next])
      [] ins.kind = "setcx" -> Ran([here EXCEPT !.rip = next, !.rcx = LoopCount])
      [] ins.kind = "loop"  -> IF cx > 1
                                 THEN Ran([here EXCEPT !.rip = ins.target, !.rcx = cx - 1])
                                 ELSE Ran([here EXCEPT !.rip = next, !.rcx = 0])
      [] ins.kind = "exit"  -> [here EXCEPT !.kind = "Exited", !.sig = "-"]
      [] ins.kind = "call"  ->
           IF Mapped(m, sp - WordSize)
             THEN Ran([here EXCEPT !.rip = ins.target, !.rsp = sp - WordSize,
                                   !.mem = Store(m, sp - WordSize, next)])
             ELSE here
      [] ins.kind = "push_rbp" ->
           IF Mapped(m, sp - WordSize)
             THEN Ran([here EXCEPT !.rip = next, !.rsp = sp - WordSize,
                                   !.mem = Store(m, sp - WordSize, bp)])
             ELSE here
      [] ins.kind = "mov_rbp_rsp" -> Ran([here EXCEPT !.rip = next, !.rbp = sp])
      [] ins.kind = "pop_rbp" ->
           IF read(m, sp).ok
             THEN Ran([here EXCEPT !.rip = next, !.rsp = sp + WordSize,
                                   !.rbp = read(m, sp).val])
             ELSE here
      [] ins.kind = "ret" ->
           IF read(m, sp).ok
             THEN Ran([here EXCEPT !.rip = read(m, sp).val, !.rsp = sp + WordSize])
             ELSE here
      [] OTHER              -> [here EXCEPT !.sig = "SIGILL"]

\* Inferior::step: PTRACE_SINGLESTEP then wait; an instruction that ran to
\* completion is reported as a SIGTRAP stop at the next instruction.
step(m, ip, cx, sp, bp) ==
  LET r == ExecOne(m, ip, cx, sp, bp) IN
  IF r.kind = "Ran" THEN [r EXCEPT !.kind = "Stopped", !.sig = "SIGTRAP"] ELSE r

\* Inferior::cont: PTRACE_CONT then wait; the child runs until it stops or exits.
RECURSIVE cont(_, _, _, _, _)
cont(m, ip, cx, sp, bp) ==
  LET r == ExecOne(m, ip, cx, sp, bp) IN
  IF r.kind = "Ran" THEN cont(r.mem, r.rip, r.rcx, r.rsp, r.rbp) ELSE r

\* the part of a WaitStatus the debugger looks at
StatusOf(s) == [kind |-> s.kind, sig |-> s.sig, rip |-> s.rip]

\* DwarfData::get_line_from_addr: <<line>> of the instruction containing addr,
\* <<>> for None
get_line_from_addr(addr) ==
  LET starts == {s \in InstrStarts : s <= addr /\ addr < s + Program[s].len} IN
  IF starts = {} THEN <<>> ELSE Program[CHOOSE s \in starts : TRUE].line

\* DwarfData::get_function_from_addr: <<name>> of the function containing
\* addr, <<>> for None
get_function_from_addr(addr) ==
  LET starts == {s \in InstrStarts : s <= addr /\ addr < s + Program[s].len} IN
  IF starts = {} THEN <<>> ELSE Program[CHOOSE s \in starts : TRUE].func

\* DwarfData::get_addr_for_line: <<the lowest address of the line>>, <<>> for
\* a line without code
get_addr_for_line(line_number) ==
  LET at == {s \in InstrStarts : Program[s].line = <<line_number>>} IN
  IF at = {} THEN <<>> ELSE <<CHOOSE s \in at : \A t \in at : s <= t>>

\* DwarfData::get_addr_for_function: <<the lowest address of the function>>,
\* <<>> for an unknown name
get_addr_for_function(func_name) ==
  LET body == {s \in InstrStarts : Program[s].func = <<func_name>>} IN
  IF body = {} THEN <<>> ELSE <<CHOOSE s \in body : \A t \in body : s <= t>>

\* --------------------------------------------------------------- the tokens
\* A token is the sequence of its characters; a name is kept as one piece.
Digit ==
  ("0" :> 0) @@ ("1" :> 1) @@ ("2" :> 2) @@ ("3" :> 3) @@ ("4" :> 4) @@
  ("5" :> 5) @@ ("6" :> 6) @@ ("7" :> 7) @@ ("8" :> 8) @@ ("9" :> 9) @@
  ("a" :> 10) @@ ("b" :> 11) @@ ("c" :> 12) @@ ("d" :> 13) @@ ("e" :> 14) @@
  ("f" :> 15)

\* usize::from_str_radix / str::parse::<usize>: <<n>>, or <<>> for Err (an
\* empty string, a character that is no digit of the radix)
RECURSIVE Digits(_, _, _)
Digits(str, radix, acc) ==
  IF str = <<>> THEN <<acc>>
  ELSE IF Head(str) \notin DOMAIN Digit \/ Digit[Head(str)] >= radix THEN <<>>
  ELSE Digits(Tail(str), radix, acc * radix + Digit[Head(str)])

from_str_radix(str, radix) == IF str = <<>> THEN <<>> ELSE Digits(str, radix, 0)

parse_address_or_zero(addr) ==
  LET n == from_str_radix(addr, 16) IN IF n = <<>> THEN <<0>> ELSE n

\* Debugger::parse_address
parse_address(addr) ==
  LET addr_without_0x ==
        IF Len(addr) >= 2 /\ addr[1] = "0" /\ addr[2] \in {"x", "X"}
          THEN SubSeq(addr, 3, Len(addr)) ELSE addr
  IN from_str_radix(addr_without_0x, 16)

\* set_bp, lines 324-334: "*" and a hexadecimal address, a decimal line
\* number, or a function name
Resolve(token) ==
  IF token # <<>> /\ Head(token) = "*"
    THEN parse_address(Tail(token))
  ELSE IF from_str_radix(token, 10) # <<>>
    THEN get_addr_for_line(from_str_radix(token, 10)[1])
  ELSE IF Len(token) = 1 THEN get_addr_for_function(token[1])
  ELSE <<>>

\* the tokens SetBreakpoint is given in this model: six that resolve (to the
\* addresses of BpTargets) and three that do not (a bad hexadecimal address,
\* a line without code, an unknown function)
GoodTokens ==
  { <<"main">>, <<"*", "0", "x", "1">>, <<"3">>, <<"*", "a">>, <<"*", "e">>,
    <<"*", "1", "0">> }
BadTokens == { <<"*", "g">>, <<"7">>, <<"g">> }
Tokens == GoodTokens \cup BadTokens

\* the addresses the tokens resolve to: five instruction starts and one
\* address outside the mapped memory
BpTargets == {Resolve(t)[1] : t \in GoodTokens}

RECURSIVE print_backtrace_at_rbp(_, _, _, _)
print_backtrace_at_rbp(m, ip, bp, out) ==
  LET func_name == get_function_from_addr(ip)
      func_line == get_line_from_addr(ip)
  IN IF func_name = <<>> \/ func_line = <<>>
       THEN [ok |-> FALSE, cut |-> FALSE, frames |-> out]
     ELSE LET printed == Append(out, [func |-> func_name[1], line |-> func_line[1]]) IN
       IF func_name[1] = "main"
         THEN [ok |-> TRUE, cut |-> FALSE, frames |-> printed]
       ELSE IF Len(printed) >= MaxFrames
         THEN [ok |-> FALSE, cut |-> TRUE, frames |-> printed]
       ELSE IF ~read(m, bp).ok
         THEN [ok |-> FALSE, cut |-> FALSE, frames |-> printed]
       ELSE print_backtrace_at_rbp(m, read(m, bp).val, read(m, bp).val, printed)

\* Inferior::print_backtrace: the frames printed, innermost first, and whether
\* the walk ended at main (ok) or with an error; cut: the walk was cut off
\* after MaxFrames frames
RECURSIVE print_backtrace(_, _, _, _)
print_backtrace(m, ip, bp, out) ==
  LET func_name == get_function_from_addr(ip)
      func_line == get_line_from_addr(ip)
  IN IF func_name = <<>> \/ func_line = <<>>
       THEN [ok |-> FALSE, cut |-> FALSE, frames |-> out]
     ELSE LET printed == Append(out, [func |-> func_name[1], line |-> func_line[1]]) IN
       IF func_name[1] = "main"
         THEN [ok |-> TRUE, cut |-> FALSE, frames |-> printed]
       ELSE IF Len(printed) >= MaxFrames
         THEN [ok |-> FALSE, cut |-> TRUE, frames |-> printed]
       ELSE IF ~read(m, bp + WordSize).ok \/ ~read(m, bp).ok
         THEN [ok |-> FALSE, cut |-> FALSE, frames |-> printed]
       ELSE print_backtrace(m, read(m, bp + WordSize).val, read(m, bp).val, printed)

\* ---------------------------------------------------- the breakpoint HashMap
\* breakpoints: HashMap<usize, Breakpoint>, kept as the set of its values
Keys(bps) == {b.addr : b \in bps}
Get(bps, addr) == CHOOSE b \in bps : b.addr = addr

InsertKeepingOld(bps, bp) == bps \cup {bp}

\* HashMap::insert replaces the value stored under the key
Insert(bps, bp) == {b \in bps : b.addr # bp.addr} \cup {bp}

\* breakpoint.orig_byte = ... through get_mut / the iterator of Inferior::new
SetOrig(bps, addr, byte) ==
  {IF b.addr = addr THEN [b EXCEPT !.orig_byte = byte] ELSE b : b \in bps}

Orders(S) ==
  {f \in [1..Cardinality(S) -> S] : \A i, j \in 1..Cardinality(S) : i # j => f[i] # f[j]}

PatchNone(m, bps, order, i) == [ok |-> TRUE, mem |-> m, bps |-> bps]

\* the loop of Inferior::new over the table, in the HashMap's iteration order
RECURSIVE PatchAll(_, _, _, _)
PatchAll(m, bps, order, i) ==
  IF i > Len(order) THEN [ok |-> TRUE, mem |-> m, bps |-> bps]
  ELSE LET w == write_byte(m, order[i].addr, TRAP_BYTE) IN
       IF ~w.ok THEN [ok |-> FALSE, mem |-> m, bps |-> bps]
       ELSE PatchAll(w.mem, SetOrig(bps, order[i].addr, w.orig_byte), order, i + 1)


\* ------------------------------------------------------------- debugger.rs
VARIABLES
  pc,                      \* position of Debugger::run
  cmd,                     \* the command being handled (the last one, at the prompt)
  inferior,                \* self.inferior: "None" or "Some"
  alive,                   \* the held Inferior's process exists (not yet reaped)
  mem, rip, rcx, rsp, rbp, \* the held child's memory and registers
  breakpoints,             \* self.breakpoints
  inferior_stopped_by_bp,  \* self.inferior_stopped_by_bp
  old_line_number,         \* the starting line of the Next loop
  orphans,                 \* children spawned and neither held nor reaped
  report,                  \* the last line printed
  os_issued,               \* the command issued an OS operation on a process
  ctl_err,                 \* a step()/cont() call of the command returned Err
  status,                  \* <<the Status the resume of cont() returned>>, or <<>>
  stepover,                \* {B}: this cont() or Next began halted at breakpoint B
  fresh,                   \* the held child has not been resumed or stepped yet
  declared,                \* the addresses set_bp has inserted so far
  token,                   \* the token of the SetBreakpoint command, <<>> otherwise
  backtrace,               \* the frames the Backtrace command printed
  next_end,                \* why the loop of Next was left ("" while it runs)
  halted,                  \* {B}: Continue stopped at breakpoint B; kept until the
                           \* child is resumed or replaced
  \* the harness of write_byte (SpecWriteByte)
  wb_pc, wb_mem, wb_addr, wb_val, wb_ret, wb_old,
  \* one Inferior driven through its methods (SpecInferior)
  inf_proc,                \* the OS process: "off", "stopped", "zombie" (dead,
                           \* not waited for), "reaped" (by nix's waitpid),
                           \* "reaped_std" (by the std Child's try_wait)
  inf_mem, inf_rip, inf_rcx, inf_rsp, inf_rbp,   \* the child's memory and registers
  inf_ret,                 \* the last method called and what it returned
  \* one LinkedList<T> (SpecLinkedList)
  ll_heap,                 \* the boxed nodes: id -> [value, next]
  ll_head,                 \* LinkedList.head: <<>> or <<id>>
  ll_size,                 \* LinkedList.size
  ll_ret                   \* the last method called, what it returned, and the
                           \* number of nodes the list had before
  ,
  \* one game of Hangman (SpecHangman)
  hm_pc,                   \* "off", "top" (head of the loop), "read" (blocked in
                           \* read_line), "won", "lost", "panicked"
  chars,                   \* the secret word
  guesses,                 \* incorrect guesses left
  guess_chars,             \* the word so far
  guessed_chars,           \* the letters guessed
  correct_char_num,
  hm_incorrect,            \* the guesses answered with "not in the word"
  \* one call of parallel_map (SpecParallelMap)
  pm_pc,                   \* the caller: "off", "spawn", "send", "collect",
                           \* "join", "returned"
  pm_k,                    \* the counter of the caller's current for loop
  input_vec, num_threads, output_vec,
  input_ch, output_ch,     \* the messages in the two channels, oldest first
  input_tx, output_tx,     \* the number of live senders of each channel
  threads,                 \* the workers: [pc, holding]
  pm_applied,              \* index -> the number of times f was applied to it
  pm_padded,               \* a default was pushed for an index not yet received
  \* balancebeam's ProxyState and its tasks (SpecBalanceBeam)
  upstream_len,            \* upstream_addresses.len(); 0 while not started
  upstream_address_flags,
  upstream_address_valid_num,   \* the usize read as a signed 64-bit number:
                                \* -1 stands for 2^64 - 1
  overflow_checks,         \* the build panics on integer overflow (debug) or
                           \* wraps (release)
  bb_readers,              \* read guards of the RwLock held across an await
  bb_client,               \* connect_to_upstream calls: [pc, idx, spins]
  bb_health                \* active_health_check: [pc, idx]

dbg_vars == <<pc, cmd, inferior, alive, mem, rip, rcx, rsp, rbp, breakpoints,
              inferior_stopped_by_bp, old_line_number, orphans, report, os_issued,
              ctl_err, status, stepover, fresh, declared, token, backtrace,
              next_end, halted>>
wb_vars == <<wb_pc, wb_mem, wb_addr, wb_val, wb_ret, wb_old>>
inf_vars == <<inf_proc, inf_mem, inf_rip, inf_rcx, inf_rsp, inf_rbp, inf_ret>>
ll_vars == <<ll_heap, ll_head, ll_size, ll_ret>>
hm_vars == <<hm_pc, chars, guesses, guess_chars, guessed_chars, correct_char_num,
             hm_incorrect>>
pm_vars == <<pm_pc, pm_k, input_vec, num_threads, output_vec, input_ch, output_ch,
             input_tx, output_tx, threads, pm_applied, pm_padded>>
bb_vars == <<upstream_len, upstream_address_flags, upstream_address_valid_num,
             overflow_checks, bb_readers, bb_client, bb_health>>
vars == <<dbg_vars, wb_vars, inf_vars, ll_vars, hm_vars, pm_vars, bb_vars>>
\* what the actions of one part leave alone
dbg_rest == <<wb_vars, inf_vars, ll_vars, hm_vars, pm_vars, bb_vars>>
wb_rest == <<dbg_vars, inf_vars, ll_vars, hm_vars, pm_vars, bb_vars>>
inf_rest == <<dbg_vars, wb_vars, ll_vars, hm_vars, pm_vars, bb_vars>>
ll_rest == <<dbg_vars, wb_vars, inf_vars, hm_vars, pm_vars, bb_vars>>
hm_rest == <<dbg_vars, wb_vars, inf_vars, ll_vars, pm_vars, bb_vars>>
pm_rest == <<dbg_vars, wb_vars, inf_vars, ll_vars, hm_vars, bb_vars>>
bb_rest == <<dbg_vars, wb_vars, inf_vars, ll_vars, hm_vars, pm_vars>>

\* a printed line: the text, and the index and address set_bp prints
Msg(m, n) == [msg |-> m, arg |-> n, idx |-> 0]

\* Debugger::new
DebuggerNew ==
  /\ pc = "prompt" /\ cmd = "none"
  /\ inferior = "None" /\ alive = FALSE
  /\ mem = FreshMem /\ rip = Entry /\ rcx = 0 /\ rsp = FreshRsp /\ rbp = 0
  /\ breakpoints = {}
  /\ inferior_stopped_by_bp = FALSE
  /\ old_line_number = 0 /\ orphans = 0
  /\ report = Msg("", 0)
  /\ os_issued = FALSE /\ ctl_err = FALSE
  /\ status = <<>> /\ stepover = {}
  /\ fresh = FALSE /\ declared = {}
  /\ token = <<>> /\ backtrace = <<>> /\ next_end = "" /\ halted = {}

\* the harness of write_byte at rest
WbOff ==
  /\ wb_pc = "off" /\ wb_mem = FreshMem /\ wb_old = FreshMem
  /\ wb_addr = 0 /\ wb_val = 0 /\ wb_ret = 0

\* no Inferior under the harness of its methods
InfOff ==
  /\ inf_proc = "off" /\ inf_mem = FreshMem /\ inf_rip = Entry /\ inf_rcx = 0
  /\ inf_rsp = FreshRsp /\ inf_rbp = 0 /\ inf_ret = [op |-> "none", res |-> "none"]

\* LinkedList::new
LinkedListNew ==
  /\ ll_heap = <<>> /\ ll_head = <<>> /\ ll_size = 0
  /\ ll_ret = [op |-> "new", res |-> <<>>, before |-> 0]

\* no game of Hangman
HmOff ==
  /\ hm_pc = "off" /\ chars = <<>> /\ guesses = 0 /\ guess_chars = <<>>
  /\ guessed_chars = <<>> /\ correct_char_num = 0 /\ hm_incorrect = 0

\* parallel_map not called
PmOff ==
  /\ pm_pc = "off" /\ pm_k = 0 /\ input_vec = <<>> /\ num_threads = 0
  /\ output_vec = <<>> /\ input_ch = <<>> /\ output_ch = <<>>
  /\ input_tx = 0 /\ output_tx = 0 /\ threads = <<>>
  /\ pm_applied = <<>> /\ pm_padded = FALSE

\* balancebeam not started
BbOff ==
  /\ upstream_len = 0 /\ upstream_address_flags = <<>>
  /\ upstream_address_valid_num = 0 /\ overflow_checks = FALSE
  /\ bb_readers = 0 /\ bb_client = <<>> /\ bb_health = [pc |-> "off", idx |-> 0]

Init == DebuggerNew /\ WbOff /\ InfOff /\ LinkedListNew /\ HmOff /\ PmOff /\ BbOff

\* Inferior::running: try_wait on the std Child.  A child that nix's waitpid
\* has already reaped makes try_wait fail, which running() turns into a panic.
running == IF alive THEN "true" ELSE "panic"

\* the child's state is dropped together with the Inferior
Gone == mem' = FreshMem /\ rip' = Entry /\ rcx' = 0 /\ rsp' = FreshRsp /\ rbp' = 0

Panic(what) ==
  /\ pc' = "panicked" /\ report' = Msg(what, 0) /\ os_issued' = TRUE
  /\ UNCHANGED <<inferior, alive, mem, rip, rcx, rsp, rbp, breakpoints,
                 inferior_stopped_by_bp, old_line_number, orphans, fresh,
                 declared, halted>>

\* Debugger::reset_bp
reset_bp(m, bps, ip) ==
  IF (ip - 1) \in Keys(bps)
    THEN LET breakpoint == Get(bps, ip - 1)
             w == write_byte(m, breakpoint.addr, TRAP_BYTE)
         IN [mem |-> w.mem, bps |-> SetOrig(bps, breakpoint.addr, w.orig_byte)]
    ELSE [mem |-> m, bps |-> bps]

\* Debugger::restore_bp, with Inferior::step_back_rip
restore_bp(m, bps, ip) ==
  IF (ip - 1) \in Keys(bps)
    THEN LET breakpoint == Get(bps, ip - 1)
             w == write_byte(m, breakpoint.addr, breakpoint.orig_byte)
         IN [hit |-> TRUE, mem |-> w.mem, rip |-> ip - 1]
    ELSE [hit |-> FALSE, mem |-> m, rip |-> ip]

\* the prompt hands over a new command
Dispatch(c) ==
  /\ pc = "prompt" /\ cmd' = c
  /\ ctl_err' = FALSE /\ status' = <<>> /\ next_end' = ""

\* the position cont() reaches once its liveness check has passed
ContPc(flag) == IF flag THEN "cont_step" ELSE "cont_resume"

\* {B} when the child is halted at the declared breakpoint B with the
\* program's instruction in memory at B
HaltedAt ==
  IF /\ inferior_stopped_by_bp
     /\ rip \in Keys(breakpoints)
     /\ ByteAt(mem, rip) = ProgByte(rip)
     /\ ByteAt(mem, rip) # TRAP_BYTE
    THEN {rip} ELSE {}

\* DebuggerCommand::Run: kill a running inferior, Inferior::new, self.cont()
CmdRun(spawn_ok, order) ==
  /\ Dispatch("Run")
  /\ stepover' = {} /\ token' = <<>> /\ backtrace' = <<>>
  /\ UNCHANGED dbg_rest
  /\ IF inferior = "Some" /\ running = "panic"
       THEN Panic("try_wait returned unexpected err")
       ELSE LET p == PatchAll(FreshMem, breakpoints, order, 1) IN
            /\ os_issued' = TRUE
            /\ old_line_number' = old_line_number
            /\ declared' = declared
            /\ inferior_stopped_by_bp' = inferior_stopped_by_bp
            /\ halted' = {}
            /\ IF spawn_ok /\ p.ok
                 THEN /\ inferior' = "Some" /\ alive' = TRUE /\ fresh' = TRUE
                      /\ mem' = p.mem /\ rip' = Entry /\ rcx' = 0
                      /\ rsp' = FreshRsp /\ rbp' = 0
                      /\ breakpoints' = p.bps
                      /\ orphans' = orphans
                      /\ report' = report
                      /\ pc' = ContPc(inferior_stopped_by_bp)
                 ELSE /\ inferior' = inferior /\ alive' = FALSE /\ fresh' = FALSE
                      /\ Gone
                      /\ report' = Msg("Error starting subprocess", 0)
                      /\ pc' = "prompt"
                      /\ IF spawn_ok
                           THEN /\ orphans < MaxOrphans
                                /\ orphans' = orphans + 1
                                /\ breakpoints' = p.bps
                           ELSE /\ orphans' = orphans
                                /\ breakpoints' = breakpoints

\* DebuggerCommand::Continue: self.cont() up to its first ptrace call
CmdContinue ==
  /\ Dispatch("Continue")
  /\ token' = <<>> /\ backtrace' = <<>>
  /\ UNCHANGED dbg_rest
  /\ IF inferior = "None"
       THEN /\ report' = Msg("No running subprocess", 0)
            /\ pc' = "prompt" /\ os_issued' = FALSE /\ stepover' = {}
            /\ UNCHANGED <<inferior, alive, mem, rip, rcx, rsp, rbp, breakpoints,
                           inferior_stopped_by_bp, old_line_number, orphans,
                           fresh, declared, halted>>
       ELSE IF running = "panic"
         THEN Panic("try_wait returned unexpected err") /\ stepover' = {}
         ELSE /\ pc' = ContPc(inferior_stopped_by_bp)
              /\ os_issued' = TRUE
              /\ stepover' = HaltedAt
              /\ UNCHANGED <<inferior, alive, mem, rip, rcx, rsp, rbp, breakpoints,
                             inferior_stopped_by_bp, old_line_number, orphans,
                             report, fresh, declared, halted>>

\* cont(): the single step over a displaced breakpoint (debugger.rs 70-100)
ContStep(fail) ==
  /\ pc = "cont_step"
  /\ UNCHANGED <<cmd, old_line_number, orphans, os_issued, status, declared,
                 token, backtrace, next_end>>
  /\ UNCHANGED dbg_rest
  /\ IF fail
       THEN /\ report' = Msg("Error stepping inferior", 0)
            /\ inferior' = "None" /\ alive' = FALSE /\ fresh' = FALSE /\ Gone
            /\ inferior_stopped_by_bp' = FALSE
            /\ ctl_err' = TRUE /\ stepover' = {} /\ halted' = {}
            /\ pc' = "prompt"
            /\ UNCHANGED breakpoints
       ELSE LET s == step(mem, rip, rcx, rsp, rbp) IN
            /\ ctl_err' = ctl_err
            /\ IF s.kind \in {"Exited", "Signaled"}
                 THEN /\ report' = Msg("Child exited", 0)
                      /\ inferior' = "None" /\ alive' = FALSE /\ fresh' = FALSE /\ Gone
                      /\ stepover' = {} /\ halted' = {}
                      /\ pc' = "prompt"
                      /\ UNCHANGED <<breakpoints, inferior_stopped_by_bp>>
                 ELSE LET r == reset_bp(s.mem, breakpoints, s.rip) IN
                      /\ rip' = s.rip /\ rcx' = s.rcx /\ rsp' = s.rsp /\ rbp' = s.rbp
                      /\ fresh' = FALSE
                      /\ IF s.sig = "SIGTRAP"
                           THEN /\ mem' = r.mem /\ breakpoints' = r.bps
                                /\ inferior_stopped_by_bp' = FALSE
                                /\ stepover' = stepover
                           ELSE /\ stepover' = {}
                                /\ mem' = s.mem
                                /\ UNCHANGED <<breakpoints, inferior_stopped_by_bp>>
                      /\ pc' = "cont_resume"
                      /\ UNCHANGED <<inferior, alive, report, halted>>

\* cont(): the resume and the handling of its status (debugger.rs 102-134)
ContResume(fail) ==
  /\ pc = "cont_resume"
  /\ pc' = "prompt"
  /\ stepover' = {}
  /\ UNCHANGED <<cmd, old_line_number, orphans, os_issued, breakpoints, declared,
                 token, backtrace, next_end>>
  /\ UNCHANGED dbg_rest
  /\ IF fail
       THEN /\ report' = Msg("Error continuing subprocess", 0)
            /\ ctl_err' = TRUE
            /\ UNCHANGED <<inferior, alive, mem, rip, rcx, rsp, rbp,
                           inferior_stopped_by_bp, status, fresh, halted>>
       ELSE LET s == cont(mem, rip, rcx, rsp, rbp) IN
            /\ ctl_err' = ctl_err
            /\ status' = <<StatusOf(s)>>
            /\ fresh' = FALSE
            /\ IF s.kind \in {"Exited", "Signaled"}
                 THEN /\ report' = Msg("Child exited", 0)
                      /\ inferior_stopped_by_bp' = FALSE
                      /\ inferior' = "None" /\ alive' = FALSE /\ Gone
                      /\ halted' = {}
                 ELSE LET r == restore_bp(s.mem, breakpoints, s.rip) IN
                      /\ report' = Msg("Child stopped", 0)
                      /\ rcx' = s.rcx /\ rsp' = s.rsp /\ rbp' = s.rbp
                      /\ IF s.sig = "SIGTRAP"
                           THEN /\ mem' = r.mem /\ rip' = r.rip
                                /\ inferior_stopped_by_bp' = TRUE
                                /\ halted' = IF r.hit THEN {r.rip} ELSE {}
                           ELSE /\ rip' = s.rip /\ mem' = s.mem
                                /\ halted' = {}
                                /\ UNCHANGED inferior_stopped_by_bp
                      /\ UNCHANGED <<inferior, alive>>

\* DebuggerCommand::Quit
CmdQuitNoKill ==
  /\ Dispatch("Quit")
  /\ stepover' = {} /\ token' = <<>> /\ backtrace' = <<>>
  /\ UNCHANGED dbg_rest
  /\ pc' = "done" /\ os_issued' = FALSE /\ report' = report
  /\ UNCHANGED <<inferior, alive, mem, rip, rcx, rsp, rbp, breakpoints,
                 inferior_stopped_by_bp, old_line_number, orphans, fresh,
                 declared, halted>>

CmdQuit ==
  /\ Dispatch("Quit")
  /\ stepover' = {} /\ token' = <<>> /\ backtrace' = <<>>
  /\ UNCHANGED dbg_rest
  /\ IF inferior = "Some" /\ running = "panic"
       THEN Panic("try_wait returned unexpected err")
       ELSE /\ pc' = "done"
            /\ os_issued' = (inferior = "Some")
            /\ alive' = FALSE /\ fresh' = FALSE /\ Gone
            /\ halted' = {}
            /\ report' = IF inferior = "Some"
                           THEN Msg("Killing running inferior", 0) ELSE report
            /\ UNCHANGED <<inferior, breakpoints, inferior_stopped_by_bp,
                           old_line_number, orphans, declared>>

\* DebuggerCommand::Backtrace: nothing at all without an Inferior; otherwise
\* print_backtrace reads the registers, which fails on a reaped process
CmdBacktrace ==
  /\ Dispatch("Backtrace")
  /\ pc' = "prompt"
  /\ stepover' = {} /\ token' = <<>>
  /\ UNCHANGED dbg_rest
  /\ os_issued' = (inferior = "Some")
  /\ LET bt == print_backtrace(mem, rip, rbp, <<>>) IN
     IF inferior = "None"
       THEN report' = Msg("", 0) /\ backtrace' = <<>>
     ELSE IF ~alive
       THEN report' = Msg("Error printing backtrace", 0) /\ backtrace' = <<>>
     ELSE /\ backtrace' = bt.frames
          /\ report' = IF bt.ok
                         THEN Msg(bt.frames[Len(bt.frames)].func,
                                  bt.frames[Len(bt.frames)].line)
                         ELSE Msg("Error printing backtrace", 0)
  /\ UNCHANGED <<inferior, alive, mem, rip, rcx, rsp, rbp, breakpoints,
                 inferior_stopped_by_bp, old_line_number, orphans, fresh,
                 declared, halted>>

\* Debugger::set_bp
set_bp(tok) ==
  /\ Dispatch("Breakpoint")
  /\ pc' = "prompt"
  /\ stepover' = {} /\ token' = tok /\ backtrace' = <<>>
  /\ UNCHANGED dbg_rest
  /\ UNCHANGED <<inferior, alive, rip, rcx, rsp, rbp, inferior_stopped_by_bp,
                 old_line_number, orphans, fresh, halted>>
  /\ LET bp_addr == Resolve(tok) IN
     IF bp_addr = <<>>
       THEN /\ report' = Msg("Invalid breakpoint!", 0)
            /\ os_issued' = FALSE
            /\ UNCHANGED <<mem, breakpoints, declared>>
       ELSE LET addr == bp_addr[1]
                w == IF inferior = "Some" /\ alive
                       THEN write_byte(mem, addr, TRAP_BYTE)
                       ELSE [ok |-> FALSE, mem |-> mem, orig_byte |-> 0]
            IN /\ os_issued' = (inferior = "Some")
               /\ IF inferior = "Some" /\ ~w.ok
                    THEN /\ report' = Msg("Error setting breakpoint", addr)
                         /\ UNCHANGED <<mem, breakpoints, declared>>
                    ELSE /\ addr \in Keys(breakpoints) \/ Cardinality(breakpoints) < MaxBreakpoints
                         /\ report' = [msg |-> "Set breakpoint", arg |-> addr,
                                        idx |-> Cardinality(breakpoints)]
                         /\ mem' = w.mem
                         /\ breakpoints' =
                              Insert(breakpoints, [addr |-> addr, orig_byte |-> w.orig_byte])
                         /\ declared' = declared \cup {addr}

\* Inferior::get_rip: the instruction pointer from the registers; reading the
\* registers of a reaped process fails
get_rip == IF alive THEN <<rip>> ELSE <<>>

\* DebuggerCommand::Next up to the first single step (debugger.rs 210-221)
CmdNext ==
  /\ Dispatch("Next")
  /\ token' = <<>> /\ backtrace' = <<>>
  /\ UNCHANGED dbg_rest
  /\ IF inferior = "None"
       THEN /\ report' = Msg("No running subprocess!", 0)
            /\ pc' = "prompt" /\ os_issued' = FALSE /\ stepover' = {}
            /\ UNCHANGED <<inferior, alive, mem, rip, rcx, rsp, rbp, breakpoints,
                           inferior_stopped_by_bp, old_line_number, orphans,
                           fresh, declared, halted>>
       ELSE IF get_rip = <<>>
         THEN Panic("called Result::unwrap() on an Err value") /\ stepover' = {}
         ELSE LET line_number == get_line_from_addr(get_rip[1]) IN
              /\ os_issued' = TRUE
              /\ IF line_number = <<>>
                   THEN /\ report' = Msg("Error get current line number", 0)
                        /\ pc' = "done"
                        /\ old_line_number' = old_line_number
                        /\ stepover' = {}
                   ELSE /\ report' = report
                        /\ pc' = "next_loop"
                        /\ old_line_number' = line_number[1]
                        /\ stepover' = HaltedAt
              /\ UNCHANGED <<inferior, alive, mem, rip, rcx, rsp, rbp, breakpoints,
                             inferior_stopped_by_bp, orphans, fresh, declared,
                             halted>>

next_line_or_any(line_number, old) == line_number # <<>> /\ line_number[1] # old

\* the test that ends the loop of Next at a line change (debugger.rs 254-259)
next_line(line_number, old) == line_number # <<>> /\ line_number[1] = old + 1

\* one iteration of the loop of Next (debugger.rs 222-272)
NextStep(fail) ==
  /\ pc = "next_loop"
  /\ UNCHANGED <<cmd, orphans, os_issued, status, declared, token, backtrace>>
  /\ UNCHANGED dbg_rest
  /\ IF fail
       THEN /\ report' = Msg("Error next command", 0)
            /\ ctl_err' = TRUE
            /\ UNCHANGED <<pc, inferior, alive, mem, rip, rcx, rsp, rbp, breakpoints,
                           inferior_stopped_by_bp, old_line_number, fresh,
                           stepover, next_end, halted>>
       ELSE LET s == step(mem, rip, rcx, rsp, rbp) IN
            /\ ctl_err' = ctl_err
            /\ fresh' = FALSE
            /\ halted' = {}
            /\ IF s.kind \in {"Exited", "Signaled"}
                 THEN /\ report' = Msg("Child exited", 0)
                      /\ inferior' = "None" /\ alive' = FALSE /\ Gone
                      /\ pc' = "prompt" /\ old_line_number' = 0
                      /\ next_end' = "exit" /\ stepover' = {}
                      /\ UNCHANGED <<breakpoints, inferior_stopped_by_bp>>
                 ELSE LET a == IF inferior_stopped_by_bp
                                 THEN reset_bp(s.mem, breakpoints, s.rip)
                                 ELSE [mem |-> s.mem, bps |-> breakpoints]
                          r == restore_bp(a.mem, a.bps, s.rip)
                          line_number == get_line_from_addr(s.rip)
                      IN /\ rcx' = s.rcx /\ rsp' = s.rsp /\ rbp' = s.rbp
                         /\ breakpoints' = a.bps
                         /\ UNCHANGED <<inferior, alive>>
                         /\ IF s.sig = "SIGTRAP"
                              THEN /\ stepover' = stepover
                                   /\ IF r.hit
                                     THEN /\ report' = Msg("stopped at a breakpoint", 0)
                                          /\ mem' = r.mem /\ rip' = r.rip
                                          /\ inferior_stopped_by_bp' = TRUE
                                          /\ pc' = "prompt" /\ old_line_number' = 0
                                          /\ next_end' = "breakpoint"
                                     ELSE /\ report' = report
                                          /\ mem' = a.mem /\ rip' = s.rip
                                          /\ inferior_stopped_by_bp' = FALSE
                                          /\ IF next_line(line_number, old_line_number)
                                               THEN /\ pc' = "prompt"
                                                    /\ old_line_number' = 0
                                                    /\ next_end' = "line"
                                               ELSE UNCHANGED <<pc, old_line_number,
                                                                next_end>>
                              ELSE /\ report' = Msg("Child stopped", 0)
                                   /\ mem' = a.mem /\ rip' = s.rip
                                   /\ inferior_stopped_by_bp' = FALSE
                                   /\ pc' = "prompt" /\ old_line_number' = 0
                                   /\ next_end' = "signal" /\ stepover' = {}

Next ==
  \/ \E spawn_ok \in BOOLEAN : \E order \in Orders(breakpoints) : CmdRun(spawn_ok, order)
  \/ CmdContinue
  \/ \E fail \in BOOLEAN : ContStep(fail)
  \/ \E fail \in BOOLEAN : ContResume(fail)
  \/ CmdQuit
  \/ CmdBacktrace
  \/ \E tok \in Tokens : set_bp(tok)
  \/ CmdNext
  \/ \E fail \in BOOLEAN : NextStep(fail)

Spec == Init /\ [][Next]_vars

\* ------------------------------------------------- write_byte on its own
\* The memories, addresses and values write_byte is applied to: two mapped
\* words, the first with every combination of two byte values, the second
\* with eight different bytes; every address of both words and one address
\* outside them.
WbBytes == {90, TRAP_BYTE}
WbMems ==
  {(0 :> w) @@ (WordSize :> [i \in 0..(WordSize - 1) |-> 17 * (i + 1)]) :
     w \in [0..(WordSize - 1) -> WbBytes]}
WbAddrs == 0..(3 * WordSize - 1)
WbVals == {0, 1, 128, TRAP_BYTE, 255}

WbInit ==
  /\ DebuggerNew /\ InfOff /\ LinkedListNew /\ HmOff /\ PmOff /\ BbOff
  /\ wb_pc = "start" /\ wb_mem \in WbMems /\ wb_old = wb_mem
  /\ wb_addr = 0 /\ wb_val = 0 /\ wb_ret = 0

\* write_byte(addr, val) on the memory
WbWrite(addr, val) ==
  /\ wb_pc = "start"
  /\ LET w == write_byte(wb_mem, addr, val) IN
     /\ wb_pc' = IF w.ok THEN "written" ELSE "failed"
     /\ wb_mem' = w.mem /\ wb_ret' = w.orig_byte
  /\ wb_addr' = addr /\ wb_val' = val /\ wb_old' = wb_mem
  /\ UNCHANGED wb_rest

\* write_byte(addr, r), r the byte the first call returned
WbWriteBack ==
  /\ wb_pc = "written"
  /\ LET w == write_byte(wb_mem, wb_addr, wb_ret) IN
     /\ w.ok
     /\ wb_pc' = "restored"
     /\ wb_mem' = w.mem
  /\ UNCHANGED <<wb_addr, wb_val, wb_ret, wb_old>>
  /\ UNCHANGED wb_rest

WbNext ==
  \/ \E addr \in WbAddrs : \E val \in WbVals : WbWrite(addr, val)
  \/ WbWriteBack

SpecWriteByte == WbInit /\ [][WbNext]_vars

\* ------------------------------------------- the methods of one Inferior
\* Inferior::kill on a process in state proc: Child::kill sends SIGKILL with
\* libc::kill unless the std Child has itself reaped the process; its result
\* is unwrapped; then self.wait(None).  After nix's waitpid has reaped the
\* process the pid is free: libc::kill fails with ESRCH, or, when the pid has
\* been given to another process, kills that one and waitpid fails with
\* ECHILD.  After try_wait has reaped it, Child::kill is Err (older std) or
\* Ok (newer std), and waitpid fails with ECHILD.
kill(proc, pid_reused, std_ok) ==
  CASE proc = "stopped" -> [res |-> "Ok", proc |-> "reaped"]
    [] proc = "zombie"  -> [res |-> "Ok", proc |-> "reaped"]
    [] proc = "reaped"  -> IF pid_reused THEN [res |-> "Err", proc |-> proc]
                                         ELSE [res |-> "panic", proc |-> proc]
    [] OTHER            -> IF std_ok THEN [res |-> "Err", proc |-> proc]
                                     ELSE [res |-> "panic", proc |-> proc]

Ret(op, res) == [op |-> op, res |-> res]
InfCallable == inf_proc # "off" /\ inf_ret.res # "panic"

\* Inferior::new returned Some: the child is at its first trace stop
InfInit ==
  /\ DebuggerNew /\ WbOff /\ LinkedListNew /\ HmOff /\ PmOff /\ BbOff
  /\ inf_proc = "stopped" /\ inf_mem = FreshMem /\ inf_rip = Entry /\ inf_rcx = 0
  /\ inf_rsp = FreshRsp /\ inf_rbp = 0 /\ inf_ret = Ret("new", "Ok")

\* the child after a step() or cont() that returned status s
InfAfter(op, s) ==
  /\ inf_mem' = s.mem /\ inf_rip' = s.rip /\ inf_rcx' = s.rcx
  /\ inf_rsp' = s.rsp /\ inf_rbp' = s.rbp
  /\ inf_proc' = IF s.kind = "Stopped" THEN "stopped" ELSE "reaped"
  /\ inf_ret' = Ret(op, "Ok")

\* Inferior::step
InfStep ==
  /\ InfCallable
  /\ IF inf_proc = "stopped"
       THEN InfAfter("step", step(inf_mem, inf_rip, inf_rcx, inf_rsp, inf_rbp))
       ELSE /\ inf_ret' = Ret("step", "Err")
            /\ UNCHANGED <<inf_proc, inf_mem, inf_rip, inf_rcx, inf_rsp, inf_rbp>>
  /\ UNCHANGED inf_rest

\* Inferior::cont
InfCont ==
  /\ InfCallable
  /\ IF inf_proc = "stopped"
       THEN InfAfter("cont", cont(inf_mem, inf_rip, inf_rcx, inf_rsp, inf_rbp))
       ELSE /\ inf_ret' = Ret("cont", "Err")
            /\ UNCHANGED <<inf_proc, inf_mem, inf_rip, inf_rcx, inf_rsp, inf_rbp>>
  /\ UNCHANGED inf_rest

\* Inferior::write_byte(addr, 0xcc)
InfWriteByte(addr) ==
  /\ InfCallable
  /\ IF inf_proc = "stopped"
       THEN LET w == write_byte(inf_mem, addr, TRAP_BYTE) IN
            /\ inf_mem' = w.mem
            /\ inf_ret' = Ret("write_byte", IF w.ok THEN "Ok" ELSE "Err")
       ELSE inf_mem' = inf_mem /\ inf_ret' = Ret("write_byte", "Err")
  /\ UNCHANGED <<inf_proc, inf_rip, inf_rcx, inf_rsp, inf_rbp>>
  /\ UNCHANGED inf_rest

\* Inferior::running: try_wait reaps a dead child and fails on one that
\* nix's waitpid has reaped
InfRunning ==
  /\ InfCallable
  /\ inf_ret' = Ret("running", CASE inf_proc = "stopped" -> "true"
                                 [] inf_proc = "reaped"  -> "panic"
                                 [] OTHER                -> "false")
  /\ inf_proc' = IF inf_proc = "zombie" THEN "reaped_std" ELSE inf_proc
  /\ UNCHANGED <<inf_mem, inf_rip, inf_rcx, inf_rsp, inf_rbp>>
  /\ UNCHANGED inf_rest

\* Inferior::kill
InfKill(pid_reused, std_ok) ==
  /\ InfCallable
  /\ LET k == kill(inf_proc, pid_reused, std_ok) IN
     inf_proc' = k.proc /\ inf_ret' = Ret("kill", k.res)
  /\ UNCHANGED <<inf_mem, inf_rip, inf_rcx, inf_rsp, inf_rbp>>
  /\ UNCHANGED inf_rest

\* the stopped child is killed from outside the debugger
InfKilledOutside ==
  /\ inf_proc = "stopped" /\ inf_ret.res # "panic"
  /\ inf_proc' = "zombie"
  /\ UNCHANGED <<inf_mem, inf_rip, inf_rcx, inf_rsp, inf_rbp, inf_ret>>
  /\ UNCHANGED inf_rest

InfNext ==
  \/ InfStep
  \/ InfCont
  \/ \E addr \in BpTargets : InfWriteByte(addr)
  \/ InfRunning
  \/ \E pid_reused \in BOOLEAN : \E std_ok \in BOOLEAN : InfKill(pid_reused, std_ok)
  \/ InfKilledOutside

SpecInferior == InfInit /\ [][InfNext]_vars

\* --------------------------------------------------------- LinkedList<T>
\* the values pushed
LlValues == {"1", "2", "3"}

\* the number of nodes on the chain that starts at link
RECURSIVE Nodes(_, _)
Nodes(heap, link) ==
  IF link = <<>> THEN 0 ELSE 1 + Nodes(heap, heap[link[1]].next)

\* Box::new: the id of a node not in the heap
NewBox(heap) == CHOOSE n \in 1..MaxNodes : n \notin DOMAIN heap /\ \A k \in 1..(n - 1) : k \in DOMAIN heap

\* LinkedList::push_front
push_front(heap, head, size, value) ==
  LET new_node == NewBox(heap) IN
  [heap |-> [n \in DOMAIN heap \cup {new_node} |->
               IF n = new_node THEN [value |-> value, next |-> head] ELSE heap[n]],
   head |-> <<new_node>>,
   size |-> size + 1]

pop_front_counts_first(heap, head, size) ==
  IF head = <<>>
    THEN [heap |-> heap, head |-> <<>>, size |-> IF size = 0 THEN 1 ELSE size - 1, ret |-> <<>>]
    ELSE LET node == heap[head[1]] IN
         [heap |-> [n \in DOMAIN heap \ {head[1]} |-> heap[n]],
          head |-> node.next, size |-> size - 1, ret |-> <<node.value>>]

\* LinkedList::pop_front: `self.head.take()?` returns None before the size is
\* touched
pop_front(heap, head, size) ==
  IF head = <<>>
    THEN [heap |-> heap, head |-> <<>>, size |-> size, ret |-> <<>>]
    ELSE LET node == heap[head[1]] IN
         [heap |-> [n \in DOMAIN heap \ {head[1]} |-> heap[n]],
          head |-> node.next, size |-> size - 1, ret |-> <<node.value>>]

\* LinkedList::get_size, LinkedList::is_empty
get_size == ll_size
is_empty == get_size = 0

LlPushFront(value) ==
  /\ Cardinality(DOMAIN ll_heap) < MaxNodes
  /\ LET r == push_front(ll_heap, ll_head, ll_size, value) IN
     /\ ll_heap' = r.heap /\ ll_head' = r.head /\ ll_size' = r.size
  /\ ll_ret' = [op |-> "push_front", res |-> <<>>, before |-> Nodes(ll_heap, ll_head)]
  /\ UNCHANGED ll_rest

LlPopFront ==
  /\ LET r == pop_front(ll_heap, ll_head, ll_size) IN
     /\ ll_heap' = r.heap /\ ll_head' = r.head /\ ll_size' = r.size
     /\ ll_ret' = [op |-> "pop_front", res |-> r.ret, before |-> Nodes(ll_heap, ll_head)]
  /\ UNCHANGED ll_rest

LlNext ==
  \/ \E value \in LlValues : LlPushFront(value)
  \/ LlPopFront

SpecLinkedList == Init /\ [][LlNext]_vars

\* ---------------------------------------------------------------- Hangman
\* the characters of secret words and of guesses
HmChars == {"a", "b", "-"}
\* pick_a_random_word: any line of words.txt
HmWords == UNION {[1..n -> HmChars] : n \in 0..MaxWordLen}
\* read_line: a line that starts with a character, or <<>> at end of input
HmLines == {<<c>> : c \in HmChars} \cup {<<>>}

\* run(chars) up to the loop
HmInit ==
  /\ DebuggerNew /\ WbOff /\ InfOff /\ LinkedListNew /\ PmOff /\ BbOff
  /\ hm_pc = "top" /\ chars \in HmWords
  /\ guesses = NUM_INCORRECT_GUESSES
  /\ guess_chars = [i \in 1..Len(chars) |-> "-"]
  /\ guessed_chars = <<>> /\ correct_char_num = 0 /\ hm_incorrect = 0

\* the head of the loop: the two breaks, then the prompt
HmTop ==
  /\ hm_pc = "top"
  /\ hm_pc' = IF correct_char_num = Len(chars) THEN "won"
              ELSE IF guesses <= 0 THEN "lost"
              ELSE "read"
  /\ UNCHANGED <<chars, guesses, guess_chars, guessed_chars, correct_char_num, hm_incorrect>>
  /\ UNCHANGED hm_rest

\* the first position the `for` loop of run finds for the guess: the character
\* matches and the word so far shows '-' there
Found(word, shown, c) == {i \in 1..Len(word) : word[i] = c /\ shown[i] = "-"}
First(S) == CHOOSE i \in S : \A j \in S : i <= j

\* the rest of one turn of the loop, from the line read_line returned
HmGuess(guess) ==
  /\ hm_pc = "read"
  /\ IF guess = <<>>
       THEN /\ hm_pc' = "panicked"
            /\ UNCHANGED <<guesses, guess_chars, guessed_chars, correct_char_num, hm_incorrect>>
       ELSE LET found == Found(chars, guess_chars, guess[1]) IN
            /\ hm_pc' = "top"
            /\ guessed_chars' = Append(guessed_chars, guess[1])
            /\ IF found # {}
                 THEN /\ guess_chars' = [guess_chars EXCEPT ![First(found)] = chars[First(found)]]
                      /\ correct_char_num' = correct_char_num + 1
                      /\ UNCHANGED <<guesses, hm_incorrect>>
                 ELSE /\ guesses' = guesses - 1
                      /\ hm_incorrect' = hm_incorrect + 1
                      /\ UNCHANGED <<guess_chars, correct_char_num>>
  /\ chars' = chars
  /\ UNCHANGED hm_rest

HmNext ==
  \/ HmTop
  \/ \E guess \in HmLines : HmGuess(guess)

SpecHangman == HmInit /\ [][HmNext]_vars

\* ----------------------------------------------------------- parallel_map
\* the elements of the input vectors, the closure of main, and U::default()
PmElements == {2, 3}
PmInputs == UNION {[1..n -> PmElements] : n \in 0..MaxInputLen}
f(num) == num * num
Default == 0

Workers == 1..MaxThreads

\* parallel_map up to the first loop: the two channels, each with its one
\* sender and one receiver, and no thread
PmInit ==
  /\ DebuggerNew /\ WbOff /\ InfOff /\ LinkedListNew /\ HmOff /\ BbOff
  /\ pm_pc = "spawn" /\ pm_k = 0
  /\ input_vec \in PmInputs /\ num_threads \in 0..MaxThreads
  /\ output_vec = <<>> /\ input_ch = <<>> /\ output_ch = <<>>
  /\ input_tx = 1 /\ output_tx = 1
  /\ threads = [w \in Workers |-> [pc |-> "unborn", holding |-> <<>>]]
  /\ pm_applied = [i \in 1..Len(input_vec) |-> 0]
  /\ pm_padded = FALSE

\* one turn of `for _ in 0..num_threads`: clone the handles, spawn the worker
PmSpawn ==
  /\ pm_pc = "spawn" /\ pm_k < num_threads
  /\ threads' = [threads EXCEPT ![pm_k + 1].pc = "recv"]
  /\ output_tx' = output_tx + 1
  /\ pm_k' = pm_k + 1
  /\ UNCHANGED <<pm_pc, input_vec, num_threads, output_vec, input_ch, output_ch,
                 input_tx, pm_applied, pm_padded>>
  /\ UNCHANGED pm_rest

PmKeepOutput ==
  /\ pm_pc = "spawn" /\ pm_k = num_threads
  /\ pm_pc' = "send" /\ pm_k' = 0
  /\ UNCHANGED <<output_tx, input_vec, num_threads, output_vec, input_ch, output_ch,
                 input_tx, threads, pm_applied, pm_padded>>
  /\ UNCHANGED pm_rest

\* the end of the spawning loop and drop(output_tx)
PmDropOutput ==
  /\ pm_pc = "spawn" /\ pm_k = num_threads
  /\ output_tx' = output_tx - 1
  /\ pm_pc' = "send" /\ pm_k' = 0
  /\ UNCHANGED <<input_vec, num_threads, output_vec, input_ch, output_ch,
                 input_tx, threads, pm_applied, pm_padded>>
  /\ UNCHANGED pm_rest

\* one turn of the loop over input_vec: input_tx.send(Data { data, index })
PmSend ==
  /\ pm_pc = "send" /\ pm_k < Len(input_vec)
  /\ input_ch' = Append(input_ch, [data |-> input_vec[pm_k + 1], index |-> pm_k])
  /\ pm_k' = pm_k + 1
  /\ UNCHANGED <<pm_pc, input_vec, num_threads, output_vec, output_ch,
                 input_tx, output_tx, threads, pm_applied, pm_padded>>
  /\ UNCHANGED pm_rest

\* the end of the sending loop and drop(input_tx)
PmDropInput ==
  /\ pm_pc = "send" /\ pm_k = Len(input_vec)
  /\ input_tx' = input_tx - 1
  /\ pm_pc' = "collect"
  /\ UNCHANGED <<pm_k, input_vec, num_threads, output_vec, input_ch, output_ch,
                 output_tx, threads, pm_applied, pm_padded>>
  /\ UNCHANGED pm_rest

\* the defaults pushed while output_vec.len() <= received.index
Pad(vec, index) ==
  IF Len(vec) <= index
    THEN vec \o [i \in 1..(index - Len(vec) + 1) |-> Default]
    ELSE vec

place_in_arrival_order(vec, received) == Append(vec, received.data)

\* the body of the collecting loop: output_vec[received.index] = received.data
place(vec, received) ==
  [Pad(vec, received.index) EXCEPT ![received.index + 1] = received.data]

\* output_rx.recv() returned Ok
PmCollect ==
  /\ pm_pc = "collect" /\ output_ch # <<>>
  /\ output_vec' = place(output_vec, Head(output_ch))
  /\ output_ch' = Tail(output_ch)
  /\ pm_padded' = (pm_padded \/ Head(output_ch).index > Len(output_vec))
  /\ UNCHANGED <<pm_pc, pm_k, input_vec, num_threads, input_ch, input_tx, output_tx,
                 threads, pm_applied>>
  /\ UNCHANGED pm_rest

\* output_rx.recv() returned Err: the channel is empty and has no sender
PmCollectEnd ==
  /\ pm_pc = "collect" /\ output_ch = <<>> /\ output_tx = 0
  /\ pm_pc' = "join" /\ pm_k' = 0
  /\ UNCHANGED <<input_vec, num_threads, output_vec, input_ch, output_ch,
                 input_tx, output_tx, threads, pm_applied, pm_padded>>
  /\ UNCHANGED pm_rest

\* one turn of `for handle in threads`: join returns when the thread has ended
PmJoin ==
  /\ pm_pc = "join" /\ pm_k < num_threads
  /\ threads[pm_k + 1].pc = "done"
  /\ pm_k' = pm_k + 1
  /\ UNCHANGED <<pm_pc, input_vec, num_threads, output_vec, input_ch, output_ch,
                 input_tx, output_tx, threads, pm_applied, pm_padded>>
  /\ UNCHANGED pm_rest

\* the end of the joining loop: output_vec is returned
PmReturn ==
  /\ pm_pc = "join" /\ pm_k = num_threads
  /\ pm_pc' = "returned"
  /\ UNCHANGED <<pm_k, input_vec, num_threads, output_vec, input_ch, output_ch,
                 input_tx, output_tx, threads, pm_applied, pm_padded>>
  /\ UNCHANGED pm_rest

\* worker w: input_rx.recv() returned Ok and f is applied
PmRecv(w) ==
  /\ threads[w].pc = "recv" /\ input_ch # <<>>
  /\ LET received == Head(input_ch) IN
     /\ threads' = [threads EXCEPT ![w] =
                      [pc |-> "send",
                       holding |-> <<[data |-> f(received.data), index |-> received.index]>>]]
     /\ pm_applied' = [pm_applied EXCEPT ![received.index + 1] = @ + 1]
  /\ input_ch' = Tail(input_ch)
  /\ UNCHANGED <<pm_pc, pm_k, input_vec, num_threads, output_vec, output_ch,
                 input_tx, output_tx, pm_padded>>
  /\ UNCHANGED pm_rest

\* worker w: output_tx.send(output)
PmWorkerSend(w) ==
  /\ threads[w].pc = "send"
  /\ output_ch' = Append(output_ch, threads[w].holding[1])
  /\ threads' = [threads EXCEPT ![w] = [pc |-> "recv", holding |-> <<>>]]
  /\ UNCHANGED <<pm_pc, pm_k, input_vec, num_threads, output_vec, input_ch,
                 input_tx, output_tx, pm_applied, pm_padded>>
  /\ UNCHANGED pm_rest

\* worker w: input_rx.recv() returned Err (the channel is empty and has no
\* sender); the loop is left
PmRecvClosed(w) ==
  /\ threads[w].pc = "recv" /\ input_ch = <<>> /\ input_tx = 0
  /\ threads' = [threads EXCEPT ![w].pc = "drop"]
  /\ UNCHANGED <<pm_pc, pm_k, input_vec, num_threads, output_vec, input_ch, output_ch,
                 input_tx, output_tx, pm_applied, pm_padded>>
  /\ UNCHANGED pm_rest

\* worker w: drop(output_tx) and the end of the thread
PmWorkerDrop(w) ==
  /\ threads[w].pc = "drop"
  /\ output_tx' = output_tx - 1
  /\ threads' = [threads EXCEPT ![w].pc = "done"]
  /\ UNCHANGED <<pm_pc, pm_k, input_vec, num_threads, output_vec, input_ch, output_ch,
                 input_tx, pm_applied, pm_padded>>
  /\ UNCHANGED pm_rest

PmCaller ==
  \/ PmSpawn
  \/ PmDropOutput
  \/ PmSend
  \/ PmDropInput
  \/ PmCollect
  \/ PmCollectEnd
  \/ PmJoin
  \/ PmReturn

PmWorker(w) ==
  \/ PmRecv(w)
  \/ PmWorkerSend(w)
  \/ PmRecvClosed(w)
  \/ PmWorkerDrop(w)

PmNext ==
  \/ PmCaller
  \/ \E w \in Workers : PmWorker(w)

SpecParallelMap == PmInit /\ [][PmNext]_vars

\* every thread that can run is scheduled again and again
SpecParallelMapFair ==
  /\ SpecParallelMap
  /\ WF_vars(PmCaller)
  /\ \A w \in Workers : WF_vars(PmWorker(w))

\* ------------------------------------------------------------ balancebeam
Clients == 1..MaxClients
Upstreams == 0..(upstream_len - 1)

\* the number of true entries of upstream_address_flags
ValidFlags == Cardinality({i \in Upstreams : upstream_address_flags[i]})

\* main: every upstream starts valid; the health check task is spawned and
\* waits for its tick; the accepted connections are about to call
\* connect_to_upstream
BbInit ==
  /\ DebuggerNew /\ WbOff /\ InfOff /\ LinkedListNew /\ HmOff /\ PmOff
  /\ upstream_len \in 1..MaxUpstreams
  /\ upstream_address_flags = [i \in Upstreams |-> TRUE]
  /\ upstream_address_valid_num = upstream_len
  /\ overflow_checks \in BOOLEAN
  /\ bb_readers = 0
  /\ bb_client = [c \in Clients |-> [pc |-> "loop", idx |-> 0, spins |-> 0]]
  /\ bb_health = [pc |-> "tick", idx |-> 0]

\* `num -= 1` on the usize: at 0 the debug build panics and the release
\* build wraps
Decrement(num) ==
  IF num = 0 /\ overflow_checks
    THEN [panic |-> TRUE, val |-> num]
    ELSE [panic |-> FALSE, val |-> num - 1]

\* one turn of the loop of connect_to_upstream up to its first await after
\* the read lock: the error return, the `continue`, or the connect started
\* with the read guard held
BbTurn(c, upstream_idx) ==
  /\ bb_client[c].pc = "loop"
  /\ IF upstream_address_valid_num = 0
       THEN /\ bb_client' = [bb_client EXCEPT ![c].pc = "err"]
            /\ UNCHANGED bb_readers
     ELSE IF ~upstream_address_flags[upstream_idx]
       THEN /\ bb_client[c].spins < MaxSpins
            /\ bb_client' = [bb_client EXCEPT ![c].spins = @ + 1]
            /\ UNCHANGED bb_readers
     ELSE /\ bb_client' = [bb_client EXCEPT ![c].pc = "connecting",
                                               ![c].idx = upstream_idx]
          /\ bb_readers' = bb_readers + 1
  /\ UNCHANGED <<upstream_len, upstream_address_flags, upstream_address_valid_num,
                 overflow_checks, bb_health>>
  /\ UNCHANGED bb_rest

\* TcpStream::connect returned: Ok is returned to handle_connection, Err
\* drops the read guard
BbConnect(c, ok) ==
  /\ bb_client[c].pc = "connecting"
  /\ bb_readers' = bb_readers - 1
  /\ bb_client' = [bb_client EXCEPT ![c].pc = IF ok THEN "ok" ELSE "mark"]
  /\ UNCHANGED <<upstream_len, upstream_address_flags, upstream_address_valid_num,
                 overflow_checks, bb_health>>
  /\ UNCHANGED bb_rest

\* state.write().await.upstream_address_flags[upstream_idx] = false
BbMarkInvalid(c) ==
  /\ bb_client[c].pc = "mark" /\ bb_readers = 0
  /\ upstream_address_flags' = [upstream_address_flags EXCEPT ![bb_client[c].idx] = FALSE]
  /\ bb_client' = [bb_client EXCEPT ![c].pc = "count"]
  /\ UNCHANGED <<upstream_len, upstream_address_valid_num, overflow_checks,
                 bb_readers, bb_health>>
  /\ UNCHANGED bb_rest

\* state.write().await.upstream_address_valid_num -= 1, then the next turn
BbCountDown(c) ==
  /\ bb_client[c].pc = "count" /\ bb_readers = 0
  /\ LET d == Decrement(upstream_address_valid_num) IN
     /\ d.val >= 0 - MaxWrap
     /\ upstream_address_valid_num' = d.val
     /\ bb_client' = [bb_client EXCEPT ![c].pc = IF d.panic THEN "panicked" ELSE "loop"]
  /\ UNCHANGED <<upstream_len, upstream_address_flags, overflow_checks,
                 bb_readers, bb_health>>
  /\ UNCHANGED bb_rest

\* the health check goes on to the next upstream, or waits for the next tick
HealthNext(idx) ==
  IF idx + 1 < upstream_len THEN [pc |-> "lock", idx |-> idx + 1]
                            ELSE [pc |-> "tick", idx |-> 0]

\* interval.tick() returned: the for loop over the upstreams starts
BbTick ==
  /\ bb_health.pc = "tick"
  /\ bb_health' = [pc |-> "lock", idx |-> 0]
  /\ UNCHANGED <<upstream_len, upstream_address_flags, upstream_address_valid_num,
                 overflow_checks, bb_readers, bb_client>>
  /\ UNCHANGED bb_rest

\* state.read().await, the request is built, the connect starts with the read
\* guard held
BbHealthLock ==
  /\ bb_health.pc = "lock"
  /\ bb_health' = [bb_health EXCEPT !.pc = "probe"]
  /\ bb_readers' = bb_readers + 1
  /\ UNCHANGED <<upstream_len, upstream_address_flags, upstream_address_valid_num,
                 overflow_checks, bb_client>>
  /\ UNCHANGED bb_rest

\* what the probe of one upstream can come to
ProbeResults == {"connect_failed", "write_failed", "status_200", "status_other",
                 "read_failed"}

\* the connect returned, the read guard is dropped, the request is written
\* and the response read
BbHealthProbe(result) ==
  /\ bb_health.pc = "probe"
  /\ bb_readers' = bb_readers - 1
  /\ bb_health' = CASE result = "write_failed" -> HealthNext(bb_health.idx)
                    [] result = "status_200"   -> [bb_health EXCEPT !.pc = "check_up"]
                    [] OTHER                   -> [bb_health EXCEPT !.pc = "check_down"]
  /\ UNCHANGED <<upstream_len, upstream_address_flags, upstream_address_valid_num,
                 overflow_checks, bb_client>>
  /\ UNCHANGED bb_rest

\* the flag is read under a read guard of its own: nothing to do when it is
\* already what the probe found
BbHealthCheckFlag ==
  /\ bb_health.pc \in {"check_up", "check_down"}
  /\ bb_health' =
       IF upstream_address_flags[bb_health.idx] = (bb_health.pc = "check_up")
         THEN HealthNext(bb_health.idx)
         ELSE [bb_health EXCEPT !.pc = IF bb_health.pc = "check_up" THEN "set_up"
                                                                    ELSE "set_down"]
  /\ UNCHANGED <<upstream_len, upstream_address_flags, upstream_address_valid_num,
                 overflow_checks, bb_readers, bb_client>>
  /\ UNCHANGED bb_rest

\* under one write guard: the flag is set and the count is changed
BbHealthSet ==
  /\ bb_health.pc \in {"set_up", "set_down"} /\ bb_readers = 0
  /\ LET up == bb_health.pc = "set_up"
         d == Decrement(upstream_address_valid_num)
     IN /\ upstream_address_flags' = [upstream_address_flags EXCEPT ![bb_health.idx] = up]
        /\ up \/ d.val >= 0 - MaxWrap
        /\ upstream_address_valid_num' =
             IF up THEN upstream_address_valid_num + 1 ELSE d.val
        /\ bb_health' = IF ~up /\ d.panic THEN [bb_health EXCEPT !.pc = "panicked"]
                                          ELSE HealthNext(bb_health.idx)
  /\ UNCHANGED <<upstream_len, overflow_checks, bb_readers, bb_client>>
  /\ UNCHANGED bb_rest

BbClient(c) ==
  \/ \E upstream_idx \in Upstreams : BbTurn(c, upstream_idx)
  \/ \E ok \in BOOLEAN : BbConnect(c, ok)
  \/ BbMarkInvalid(c)
  \/ BbCountDown(c)

BbHealth ==
  \/ BbTick
  \/ BbHealthLock
  \/ \E result \in ProbeResults : BbHealthProbe(result)
  \/ BbHealthCheckFlag
  \/ BbHealthSet

BbNext ==
  \/ \E c \in Clients : BbClient(c)
  \/ BbHealth

SpecBalanceBeam == BbInit /\ [][BbNext]_vars

\* ------------------------------------------------------------------ claims
Live == inferior = "Some" /\ alive
Armed(a) == ByteAt(mem, a) = TRAP_BYTE

\* C1: Continue while halted at a declared breakpoint B: once the single step
\* has stopped with a trap signal, the trap byte is back at B and the halted
\* flag is cleared before resume() is issued, whatever the length of the
\* instruction at B.
C1_RearmedBeforeResume ==
  pc = "cont_resume" =>
    \A B \in stepover : Armed(B) /\ ~inferior_stopped_by_bp

\* C2: when the resume of Continue stopped with a trap signal one past a
\* declared breakpoint B, then at the return of the command the memory at B
\* holds the program's original byte, the instruction pointer is B and the
\* halted flag is set.
C2_RestoredAtStop ==
  (pc = "prompt" /\ status # <<>> /\ status[1].kind = "Stopped"
     /\ status[1].sig = "SIGTRAP" /\ (status[1].rip - 1) \in Keys(breakpoints))
  => /\ ByteAt(mem, status[1].rip - 1) = ProgByte(status[1].rip - 1)
     /\ rip = status[1].rip - 1
     /\ inferior_stopped_by_bp

\* C3: a resume that stops with a trap signal not one past a declared
\* breakpoint, or with any other signal, does no breakpoint bookkeeping: the
\* halted flag is not set, memory is not written, the instruction pointer is
\* the reported one.
C3_NoBookkeeping ==
  [][(pc = "cont_resume" /\ status' # <<>> /\ status'[1].kind = "Stopped"
        /\ ~(status'[1].sig = "SIGTRAP" /\ (status'[1].rip - 1) \in Keys(breakpoints)))
     => /\ (~inferior_stopped_by_bp => ~inferior_stopped_by_bp')
        /\ mem' = mem
        /\ rip' = status'[1].rip]_vars

\* C4: after every Run command the session holds no Inferior, or a live one
\* with the trap byte at every declared breakpoint address (the address it is
\* halted at excepted, whose byte the Continue protocol has displaced); never
\* a dead Inferior.
C4_RunLeavesLiveOrNone ==
  (pc = "prompt" /\ cmd = "Run") =>
    \/ inferior = "None"
    \/ /\ alive
       /\ \A a \in Keys(breakpoints) :
            Armed(a) \/ (inferior_stopped_by_bp /\ rip = a)

\* C5: only Quit ends the session; no handler failure does (a Step whose
\* instruction pointer has no source line returns to the prompt).
C5_OnlyQuitEnds ==
  (pc = "done" => cmd = "Quit") /\ pc # "panicked"

\* C6: Continue, Step and Backtrace without a live Inferior report "no
\* running subprocess", issue no OS operation and leave the session unchanged.
C6_NoProcessReported ==
  [][(pc = "prompt" /\ cmd' \in {"Continue", "Next", "Backtrace"} /\ ~Live)
     => /\ report'.msg \in {"No running subprocess", "No running subprocess!"}
        /\ ~os_issued'
        /\ pc' = "prompt"
        /\ UNCHANGED <<inferior, breakpoints, inferior_stopped_by_bp>>]_vars

\* C7: a command during which a resume() or single_step() call failed has
\* discarded the Inferior when it returns.
C7_ControlErrorDiscards ==
  (pc = "prompt" /\ ctl_err) => inferior = "None"

\* C8: a declared breakpoint stays in the table, and every spawned Inferior
\* has the trap byte at every declared address before it is first resumed or
\* stepped.
C8_DeclaredStaysAndIsApplied ==
  /\ declared \subseteq Keys(breakpoints)
  /\ (Live /\ fresh) => \A a \in declared : Armed(a)

C8_Witness ==
  /\ Live /\ fresh /\ pc = "cont_resume"
  /\ Cardinality(declared) >= 2

\* C9: a SetBreakpoint whose target resolves to an address always declares
\* the record (no Inferior, a live one or a dead one held), and with a live
\* Inferior the trap byte is at the address when the command returns.
C9_SetBreakpointDeclares ==
  [][(pc = "prompt" /\ cmd' = "Breakpoint" /\ report'.msg # "Invalid breakpoint!")
     => /\ report'.arg \in Keys(breakpoints')
        /\ (inferior' = "Some" /\ alive') => ByteAt(mem', report'.arg) = TRAP_BYTE]_vars

\* C10: declaring an address again adds no record: the table has one record
\* per distinct declared address.
C10_OneRecordPerAddress ==
  Cardinality(breakpoints) = Cardinality(declared)

\* a live child's breakpoint has just been declared a second time
C10_Witness ==
  /\ pc = "prompt" /\ cmd = "Breakpoint" /\ report.msg = "Set breakpoint"
  /\ report.idx = Cardinality(breakpoints)
  /\ Live /\ Get(breakpoints, report.arg).orig_byte = TRAP_BYTE

\* C11: a SetBreakpoint command whose token cannot be resolved to an address
\* (bad hexadecimal address, line without code, unknown function) prints
\* "Invalid breakpoint!" and leaves the breakpoint table and the child's
\* memory as they were.
C11_UnresolvedTokenChangesNothing ==
  [][(pc = "prompt" /\ cmd' = "Breakpoint" /\ token' \in BadTokens)
       => /\ report'.msg = "Invalid breakpoint!"
          /\ breakpoints' = breakpoints
          /\ mem' = mem]_vars

C11_Witness ==
  /\ pc = "prompt" /\ cmd = "Breakpoint" /\ token = <<"*", "g">>
  /\ report.msg = "Invalid breakpoint!"
  /\ Live /\ breakpoints # {}

\* C12: between commands the halted flag is set only while an Inferior is
\* held: a command that observed the child's exit has discarded the Inferior
\* and left the flag cleared.
C12_FlagOnlyWithInferior ==
  pc = "prompt" => (inferior_stopped_by_bp => inferior = "Some")

\* C13: after a Continue stopped at breakpoint B, the next Continue single
\* steps the program's own instruction at B (the instruction pointer is B and
\* memory at B holds the original byte when the step is issued), and it
\* reports a stop at B again only when the resume started away from B.
C13_SecondContinueStepsOver ==
  [][\A B \in halted :
       /\ pc = "cont_step" => (rip = B /\ ByteAt(mem, B) = ProgByte(B))
       /\ (pc = "cont_resume" /\ B \in halted') => rip # B]_vars

\* C14: when the session has ended through Quit, the child the session held
\* is not alive: Quit killed it and waited for it before returning.
C14_QuitLeavesNoChild ==
  (pc = "done" /\ cmd = "Quit") => ~alive

C14_Witness ==
  /\ pc = "done" /\ cmd = "Quit"
  /\ inferior = "Some" /\ report.msg = "Killing running inferior"

\* C15: at most one child spawned by the session is alive at any time, and a
\* Run that reported a failure has left no live child behind.
C15_AtMostOneChild ==
  /\ orphans + (IF alive THEN 1 ELSE 0) <= 1
  /\ (pc = "prompt" /\ cmd = "Run" /\ report.msg = "Error starting subprocess")
       => orphans = 0

\* C16: write_byte(addr, 0xCC) followed by write_byte(addr, r), r the byte
\* the first call returned, leaves the whole memory as it was before the
\* first call, at every byte offset.
C16_WriteByteRoundTrip ==
  (wb_pc = "restored" /\ wb_val = TRAP_BYTE) => wb_mem = wb_old

C16_Witness ==
  /\ wb_pc = "restored" /\ wb_val = TRAP_BYTE
  /\ wb_addr % WordSize = 7 /\ wb_ret # TRAP_BYTE

\* C17: write_byte(addr, val) returns the byte that was at addr, leaves val
\* at addr and leaves every other byte of the memory as it was.
C17_WriteByteOneByte ==
  wb_pc = "written" =>
    /\ wb_ret = ByteAt(wb_old, wb_addr)
    /\ DOMAIN wb_mem = DOMAIN wb_old
    /\ \A w \in DOMAIN wb_mem : \A i \in 0..(WordSize - 1) :
         wb_mem[w][i] = IF w + i = wb_addr THEN wb_val ELSE wb_old[w][i]

C17_Witness ==
  /\ wb_pc = "written" /\ wb_val = 255
  /\ wb_addr % WordSize = 5 /\ wb_ret # wb_val

\* C18: during a Next that began halted at the declared breakpoint B, after
\* every single step that stopped with a trap signal and was handled, the trap
\* byte is in memory at B, unless that very step executed the trap at B (the
\* child was at B with the trap byte in memory) and the command ended there.
C18_StepRearms ==
  [][\A B \in stepover :
       (/\ pc = "next_loop"
        /\ ~inferior_stopped_by_bp' \/ next_end' # ""
        /\ next_end' \notin {"signal", "exit"})
       => \/ ByteAt(mem', B) = TRAP_BYTE
          \/ /\ next_end' = "breakpoint" /\ rip' = B
             /\ rip = B /\ ByteAt(mem, B) = TRAP_BYTE]_vars

\* C19: a Next ends by a line change exactly at the first single-step stop
\* (trap signal, no breakpoint landing) whose line is the starting line + 1:
\* it ends there with that line, and it goes on stepping after a stop on any
\* other line or on an address without a line.
C19_NextEndsOneLineOn ==
  [][pc = "next_loop" =>
       /\ next_end' = "line" =>
            get_line_from_addr(rip') = <<old_line_number + 1>>
       /\ (pc' = "next_loop" /\ rip' # rip) =>
            get_line_from_addr(rip') # <<old_line_number + 1>>]_vars

C19_Witness ==
  /\ pc = "prompt" /\ cmd = "Next" /\ next_end = "line"
  /\ rip = 10 /\ rsp = FreshRsp /\ ByteAt(mem, FreshRsp - WordSize) = 10

\* C20: a Backtrace while the child is stopped inside f with f's frame
\* established (the frame pointer is the stack pointer of f's prologue), f
\* called from main, prints exactly two frames: f at the current address,
\* then main at the return address stored at frame pointer + 8.
ReturnIntoMain ==
  LET c == CHOOSE a \in InstrStarts : Program[a].kind = "call" IN c + Program[c].len
C20_BacktraceTwoFrames ==
  (/\ pc = "prompt" /\ cmd = "Backtrace" /\ Live
   /\ get_function_from_addr(rip) = <<"f">> /\ rbp = rsp)
  => /\ report.msg = "main"
     /\ backtrace = << [func |-> "f", line |-> get_line_from_addr(rip)[1]],
                       [func |-> "main", line |-> get_line_from_addr(ReturnIntoMain)[1]] >>

C20_Witness ==
  /\ pc = "prompt" /\ cmd = "Backtrace" /\ Live
  /\ get_function_from_addr(rip) = <<"f">> /\ rbp = rsp
  /\ Len(backtrace) = 2

\* C21: kill called on an Inferior whose process has already exited returns
\* a status or an error value; it does not panic.
C21_KillOnExitedReturns ==
  [][(inf_ret'.op = "kill" /\ inf_proc # "stopped") => inf_ret'.res \in {"Ok", "Err"}]_vars

\* C22: the size of a LinkedList is the number of nodes reachable from its
\* head, is_empty holds exactly when there are none, and pop_front on an empty
\* list returns None and leaves the size at 0.
C22_SizeCountsNodes ==
  /\ get_size = Nodes(ll_heap, ll_head)
  /\ is_empty <=> Nodes(ll_heap, ll_head) = 0
  /\ ll_ret.op = "new" => get_size = 0 /\ is_empty
  /\ (ll_ret.op = "pop_front" /\ ll_ret.before = 0) => ll_ret.res = <<>> /\ get_size = 0

C22_Witness ==
  /\ ll_ret.op = "pop_front" /\ ll_ret.before = 0
  /\ ll_heap = <<>> /\ ll_head = <<>>

\* C23: Hangman ends with the loss message exactly when the fifth incorrect
\* guess has been made before the word is complete, ends with the win message
\* exactly when every position of the word shows its character, and the
\* counter of remaining guesses never goes below 0.
C23_FiveIncorrectGuesses ==
  /\ guesses >= 0
  /\ hm_pc = "lost" => hm_incorrect = NUM_INCORRECT_GUESSES /\ guess_chars # chars
  /\ hm_pc = "won" => guess_chars = chars /\ hm_incorrect < NUM_INCORRECT_GUESSES
  /\ hm_pc = "read" => hm_incorrect < NUM_INCORRECT_GUESSES

\* C24: for every record of the breakpoint table whose trap byte is in the
\* live child's memory, the record's orig_byte is the program's original byte
\* at that address.
C24_OrigByteIsOriginal ==
  (pc = "prompt" /\ Live) =>
    \A b \in breakpoints : Armed(b.addr) => b.orig_byte = ProgByte(b.addr)

\* C25: the debugger moves the child's instruction pointer back by one only
\* when the instruction the child has just executed was the trap byte at a
\* declared breakpoint; after a step() or cont() that ran program instructions
\* only, the instruction pointer is the one the status reported.
C25_RollbackOnlyAfterTrap ==
  [][(/\ pc \in {"cont_step", "cont_resume", "next_loop"}
      /\ ctl_err' = ctl_err /\ inferior' = "Some" /\ alive')
     => LET s == IF pc = "cont_resume" THEN cont(mem, rip, rcx, rsp, rbp)
                                       ELSE step(mem, rip, rcx, rsp, rbp)
            trap_ran == IF pc = "cont_resume" THEN s.sig = "SIGTRAP"
                                              ELSE ByteAt(mem, rip) = TRAP_BYTE
        IN rip' # s.rip =>
             /\ rip' = s.rip - 1 /\ trap_ran /\ (s.rip - 1) \in Keys(breakpoints)]_vars

\* C26: a freshly spawned Inferior is not halted at a breakpoint: while the
\* child Run has spawned has not been resumed or stepped, the halted flag is
\* false and the operation Run is about to issue on it is the resume, not the
\* single step.
C26_FreshChildIsResumed ==
  fresh => (~inferior_stopped_by_bp /\ pc # "cont_step")

\* C27: a single step of the loop of Step that returns an error ends the
\* loop: it is not followed by another turn of the loop.
C27_StepErrorEndsLoop ==
  [][(pc = "next_loop" /\ report'.msg = "Error next command") => pc' # "next_loop"]_vars

\* C28: for num_threads >= 1 parallel_map returns a vector of the input's
\* length whose element i is f(input[i]), with no default left in it, and f
\* has been applied exactly once to each input element.
C28_OrderPreservingMap ==
  (pm_pc = "returned" /\ num_threads >= 1) =>
    /\ output_vec = [i \in 1..Len(input_vec) |-> f(input_vec[i])]
    /\ \A i \in 1..Len(output_vec) : output_vec[i] # Default
    /\ \A i \in 1..Len(input_vec) : pm_applied[i] = 1

C28_Witness ==
  /\ pm_pc = "returned" /\ num_threads >= 2 /\ pm_padded
  /\ Len(input_vec) >= 2 /\ input_vec[1] # input_vec[2]

\* C29: parallel_map returns a vector of exactly input_vec.len() elements for
\* every num_threads, 0 included.
C29_ResultHasInputLength ==
  pm_pc = "returned" => Len(output_vec) = Len(input_vec)

\* C30: every call of parallel_map returns, with every worker it spawned out
\* of its receive loop and ended.
C30_ParallelMapReturns ==
  <>(/\ pm_pc = "returned"
     /\ \A w \in Workers : threads[w].pc = IF w <= num_threads THEN "done" ELSE "unborn")

C30_Witness ==
  /\ pm_pc = "returned" /\ num_threads = MaxThreads /\ input_vec = <<>>
  /\ \A w \in Workers : threads[w].pc = "done"

\* C31: whenever no connect_to_upstream call is between its two updates,
\* upstream_address_valid_num is the number of true entries of
\* upstream_address_flags; the count is never taken below 0.
BetweenUpdates == \E c \in Clients : bb_client[c].pc = "count"
C31_ValidNumCountsFlags ==
  /\ ~BetweenUpdates => upstream_address_valid_num = ValidFlags
  /\ upstream_address_valid_num >= 0
  /\ bb_health.pc # "panicked" /\ \A c \in Clients : bb_client[c].pc # "panicked"

\* C32: connect_to_upstream starts a connect only to an upstream whose flag
\* is true, marks the upstream invalid when the connect failed, and returns
\* the error only when no upstream is marked valid.
C32_ErrorOnlyWithoutValidUpstream ==
  [][\A c \in Clients :
       /\ bb_client'[c].pc = "connecting" => upstream_address_flags'[bb_client'[c].idx]
       /\ (bb_client[c].pc = "mark" /\ bb_client'[c].pc = "count")
            => ~upstream_address_flags'[bb_client[c].idx]
       /\ (bb_client[c].pc = "loop" /\ bb_client'[c].pc = "err") => ValidFlags = 0]_vars

\* C33: a turn of the loop of connect_to_upstream that starts while every
\* upstream flag is false, and no call is between its two updates, returns the
\* error; it does not go round the loop again, and no call ends in a panic.
C33_ErrorInsteadOfLooping ==
  [][\A c \in Clients :
       /\ (/\ bb_client[c].pc = "loop" /\ bb_client'[c] # bb_client[c]
           /\ ValidFlags = 0 /\ ~BetweenUpdates)
            => bb_client'[c].pc = "err"
       /\ bb_client'[c].pc # "panicked"]_vars

====
